---- MODULE Spec2Model ----
(***************************************************************************)
(* Model of exovetter's modshift metrics                                   *)
(* (src/exovetter/modshift/modshift.py).                                   *)
(*                                                                         *)
(* The module is a set of pure numerical functions.  Every function is an  *)
(* operator that computes what the Python code computes, in exact rational *)
(* arithmetic: a float is a record [n, d] with d > 0 and n/d in lowest     *)
(* terms; d = 0 encodes the non-finite floats (n = 0: nan, n = 1: +inf).   *)
(* A call either returns a value or raises an exception; the outcome of    *)
(* a call is a record [err, val, stages] where err names the exception     *)
(* ("none" for a normal return).                                           *)
(*                                                                         *)
(* The state machine is a call of one function: Init draws the function   *)
(* (args.fn) and its arguments from bounded sets, the action applies the   *)
(* function and stores its outcome.  There is one specification per        *)
(* function, and Spec is the call of any of them.                          *)
(***************************************************************************)
EXTENDS Integers, Sequences, FiniteSets, TLC

VARIABLES pc, args, ret

vars == <<pc, args, ret>>

-----------------------------------------------------------------------------
(* Bounds of the model *)

\* longest time/flux/model array drawn as an input
MaxLen == 3
\* largest numerator of an input time, in quarters of a day
MaxTime == 4

-----------------------------------------------------------------------------
(* Float arithmetic, exact *)

Abs(x) == IF x < 0 THEN -x ELSE x

RECURSIVE GCD(_, _)
GCD(a, b) == IF b = 0 THEN a ELSE GCD(b, a % b)

\* the float n/d, d # 0
Rat(n, d) ==
    LET s == IF d < 0 THEN -1 ELSE 1
        g == GCD(Abs(n), Abs(d))
    IN  [n |-> (s * n) \div g, d |-> (s * d) \div g]

Int2R(k) == [n |-> k, d |-> 1]
Zero == Int2R(0)
NaN == [n |-> 0, d |-> 0]
PosInf == [n |-> 1, d |-> 0]

\* np.isfinite
isfinite(x) == x.d # 0

\* Arithmetic. An operand that is not finite gives nan: the only non-finite
\* value the functions below can produce is the nan of fmod, and nan
\* propagates through +, -, * and /.
RAdd(x, y) ==
    IF x.d = 0 \/ y.d = 0 THEN NaN
    ELSE Rat(x.n * y.d + y.n * x.d, x.d * y.d)
RNeg(x) == [n |-> -x.n, d |-> x.d]
RSub(x, y) == RAdd(x, RNeg(y))
RMul(x, y) ==
    IF x.d = 0 \/ y.d = 0 THEN NaN ELSE Rat(x.n * y.n, x.d * y.d)
\* x / y for y # 0
RDiv(x, y) ==
    IF x.d = 0 \/ y.d = 0 THEN NaN ELSE Rat(x.n * y.d, x.d * y.n)
\* Comparisons; a comparison with nan is false
RLt(x, y) == x.d # 0 /\ y.d # 0 /\ x.n * y.d < y.n * x.d
RLe(x, y) == x.d # 0 /\ y.d # 0 /\ x.n * y.d <= y.n * x.d
RAbs(x) == [n |-> Abs(x.n), d |-> x.d]

\* int(x): truncation toward zero
Trunc(x) == IF x.n >= 0 THEN x.n \div x.d ELSE -((-x.n) \div x.d)
\* smallest integer >= x
Ceil(x) == -((-x.n) \div x.d)

\* np.fmod(x, y): the remainder of x / y with the sign of the dividend x;
\* nan when the divisor is 0
fmod(x, y) ==
    IF x.d = 0 \/ y.d = 0 \/ y.n = 0 THEN NaN
    ELSE RSub(x, RMul(Int2R(Trunc(RDiv(x, y))), y))

-----------------------------------------------------------------------------
(* Outcomes of a call *)

Return(v) == [err |-> "none", val |-> v, stages |-> <<>>]
Raise(e) == [err |-> e, val |-> <<>>, stages |-> <<>>]
Pending == [err |-> "pending", val |-> <<>>, stages |-> <<>>]

-----------------------------------------------------------------------------
(* compute_phase *)

\* the default value of compute_phase's offset parameter, and the
\* orchestrator's offset
offset == Rat(1, 4)

compute_phase_1(t, period, epoch, offset_frac) ==
    fmod(RAdd(RSub(t, epoch), RMul(offset_frac, period)), period)

\* np.fmod applied to every element of the array
compute_phase(time, period, epoch, offset_frac) ==
    [k \in DOMAIN time |-> compute_phase_1(time[k], period, epoch, offset_frac)]

-----------------------------------------------------------------------------
(* fold_and_bin_data *)

\* np.arange(n): 0, 1, ... below n, as floats; n need not be an integer
arange(n) ==
    IF RLe(n, Zero) THEN <<>> ELSE [k \in 1..Ceil(n) |-> Int2R(k - 1)]

\* bins = i / float(num_bins) * period: the bin edges. There are as many
\* edges as elements of i, so one bin fewer than edges.
bin_edges(num_bins, period) ==
    LET i == arange(num_bins)
    IN  [k \in DOMAIN i |-> RMul(RDiv(i[k], num_bins), period)]

\* np.argsort(phase): the indices of phase in ascending order of value
argsort(phase) ==
    CHOOSE p \in [DOMAIN phase -> DOMAIN phase] :
        /\ \A a, b \in DOMAIN phase : a # b => p[a] # p[b]
        /\ \A a, b \in DOMAIN phase :
               a < b => \/ RLt(phase[p[a]], phase[p[b]])
                        \/ phase[p[a]] = phase[p[b]] /\ p[a] < p[b]

\* np.histogram's rule for bin k of the edges: half-open [e_k, e_k+1),
\* except the last bin, which is closed
in_bin(x, bins, k) ==
    /\ RLe(bins[k], x)
    /\ IF k = Len(bins) - 1 THEN RLe(x, bins[k + 1]) ELSE RLt(x, bins[k + 1])

RECURSIVE SumOver(_, _)
\* the sum of w[j] over the indices j of the set J
SumOver(w, J) ==
    IF J = {} THEN Zero
    ELSE LET j == CHOOSE x \in J : TRUE
         IN  RAdd(w[j], SumOver(w, J \ {j}))

\* np.histogram(phase, bins=bins)[0]: the count of samples per bin
histogram(phase, bins) ==
    [k \in 1..(IF Len(bins) = 0 THEN 0 ELSE Len(bins) - 1) |->
        Cardinality({j \in DOMAIN phase : in_bin(phase[j], bins, k)})]

\* np.histogram(phase, bins=bins, weights=flux)[0]: the sum of flux per bin
histogram_weights(phase, bins, flux) ==
    [k \in 1..(IF Len(bins) = 0 THEN 0 ELSE Len(bins) - 1) |->
        SumOver(flux, {j \in DOMAIN phase : in_bin(phase[j], bins, k)})]

\* np.histogram raises ValueError when the edges decrease somewhere
bins_monotonic(bins) ==
    \A k \in 1..(Len(bins) - 1) : ~RLt(bins[k + 1], bins[k])

\* a[idx]: the elements of a at the indices where idx is TRUE, in order
Select(a, idx) ==
    LET F[k \in 0..Len(a)] ==
            IF k = 0 THEN <<>>
            ELSE IF idx[k] THEN Append(F[k - 1], a[k]) ELSE F[k - 1]
    IN  F[Len(a)]

\* the number of columns of the array out = np.zeros((numNonZeroBins, 2))
out_columns == 2

\* The array out the function builds: a row per bin that holds a sample,
\* with the bin's left edge, the sum of the flux in the bin and the count.
fold_and_bin_out(time, flux, period, epoch, num_bins, offset_frac) ==
    LET bins == bin_edges(num_bins, period)
        phase0 == compute_phase(time, period, epoch, offset_frac)
        srt == argsort(phase0)
        phase == [k \in DOMAIN phase0 |-> phase0[srt[k]]]
        sflux == [k \in DOMAIN phase0 |-> flux[srt[k]]]
        cts == histogram(phase, bins)
        binnedFlux == histogram_weights(phase, bins, sflux)
        idx == [k \in DOMAIN cts |-> cts[k] > 0]
        col0 == Select([k \in DOMAIN cts |-> bins[k]], idx)
        col1 == Select(binnedFlux, idx)
        col2 == Select(cts, idx)
    IN  [k \in DOMAIN col0 |-> <<col0[k], col1[k], Int2R(col2[k])>>]

\* fold_and_bin_data(time, flux, period, epoch, num_bins, offset_frac).
\* out is allocated with the columns 0 and 1; the last assignment,
\* out[:,2] = cts[idx], indexes column 2, which numpy refuses with an
\* IndexError whatever the number of rows: the return is never reached.
fold_and_bin_data(time, flux, period, epoch, num_bins, offset_frac) ==
    IF Len(flux) < Len(time) THEN Raise("IndexError")   \* flux[srt]
    ELSE IF ~bins_monotonic(bin_edges(num_bins, period)) THEN Raise("ValueError")
    ELSE IF 2 >= out_columns THEN Raise("IndexError")
    ELSE Return(fold_and_bin_out(time, flux, period, epoch, num_bins,
                                 offset_frac))

-----------------------------------------------------------------------------
(* find_indices_of_key_locations *)

Col(a, c) == [k \in DOMAIN a |-> a[k][c]]

\* np.argmin: the lowest index that holds the minimum (a non-empty array)
argmin(a) ==
    CHOOSE i \in DOMAIN a :
        /\ \A j \in DOMAIN a : RLe(a[i], a[j])
        /\ \A j \in 1..(i - 1) : RLt(a[i], a[j])

\* np.argmax: the lowest index that holds the maximum (a non-empty array)
argmax(a) ==
    CHOOSE i \in DOMAIN a :
        /\ \A j \in DOMAIN a : RLe(a[j], a[i])
        /\ \A j \in 1..(i - 1) : RLt(a[j], a[i])

\* the window with its two ends included
near_closed(phi, centre, gap) ==
    /\ RLe(RSub(centre, gap), phi)
    /\ RLe(phi, RAdd(centre, gap))

\* idx = centre - gap < phase; idx &= phase < centre + gap
near(phi, centre, gap) ==
    /\ RLt(RSub(centre, gap), phi)
    /\ RLt(phi, RAdd(centre, gap))

\* ms[idx] = 0 for the window of half-width gap around centre
mask_window(ms, phase, centre, gap) ==
    [k \in DOMAIN ms |-> IF near(phase[k], centre, gap) THEN Zero ELSE ms[k]]

find_indices_of_key_locations(conv, period_days, duration_hrs) ==
    LET transit_width == RDiv(duration_hrs, Int2R(24))
        gap_width == RMul(Int2R(2), transit_width)
        pos_gap_width == RMul(Int2R(3), transit_width)
        phase == Col(conv, 1)
        ms0 == Col(conv, 2)
    IN  IF Len(conv) = 0 THEN Raise("ValueError")    \* np.argmin of nothing
        ELSE
        LET i0 == argmin(ms0)
            ms1 == mask_window(ms0, phase, phase[i0], gap_width)
            i1 == argmin(ms1)
            ms2 == mask_window(ms1, phase, phase[i1], gap_width)
            i2 == argmin(ms2)
            ms3 == mask_window(ms2, phase, phase[i0], pos_gap_width)
            ms4 == mask_window(ms3, phase, phase[i1], pos_gap_width)
            i3 == argmax(ms4)
        IN  Return([pri |-> phase[i0], sec |-> phase[i1],
                    ter |-> phase[i2], pos |-> phase[i3]])

\* The array ms when the function returns: the statistic column with the
\* 2w windows and then the 3w windows of pri and sec set to zero
masked_statistic(conv, duration_hrs) ==
    LET transit_width == RDiv(duration_hrs, Int2R(24))
        gap_width == RMul(Int2R(2), transit_width)
        pos_gap_width == RMul(Int2R(3), transit_width)
        phase == Col(conv, 1)
        ms0 == Col(conv, 2)
        i0 == argmin(ms0)
        ms1 == mask_window(ms0, phase, phase[i0], gap_width)
        i1 == argmin(ms1)
        ms2 == mask_window(ms1, phase, phase[i1], gap_width)
        ms3 == mask_window(ms2, phase, phase[i0], pos_gap_width)
    IN  mask_window(ms3, phase, phase[i1], pos_gap_width)

\* The caller's array after a call that masks a view of its statistic
\* column (ms = conv[:, 1]): the writes ms[idx] = 0 land in conv
conv_masked_in_place(conv, period_days, duration_hrs) ==
    IF Len(conv) = 0 THEN conv
    ELSE [k \in DOMAIN conv |->
             <<conv[k][1], masked_statistic(conv, duration_hrs)[k]>>]

\* The caller's array after the call: phase = conv[:, 0].copy() and
\* ms = conv[:, 1].copy() are arrays of their own, and the function writes
\* to ms alone, so no write reaches conv
conv_after_find_indices(conv, period_days, duration_hrs) == conv

-----------------------------------------------------------------------------
(* estimate_scatter *)

\* The square root of a float v >= 0, kept exact as the record of v
Sqrt(v) == [sq |-> v]
\* sigma > 0 for a square root
SqrtPositive(s) == RLt(Zero, s.sq)

\* np.std of a non-empty array: the root of the mean squared deviation
\* from the mean
np_std(x) ==
    LET n == Int2R(Len(x))
        mean == RDiv(SumOver(x, DOMAIN x), n)
        dev2 == [k \in DOMAIN x |->
                    RMul(RSub(x[k], mean), RSub(x[k], mean))]
    IN  Sqrt(RDiv(SumOver(dev2, DOMAIN x), n))

\* idx = ~(idx1 | idx2): the samples in neither window
scatter_idx(phi_days, phi_pri_days, phi_sec_days, gap_width_hrs) ==
    LET gap_width_days == RDiv(gap_width_hrs, Int2R(24))
    IN  [k \in DOMAIN phi_days |->
            ~(\/ near(phi_days[k], phi_pri_days, gap_width_days)
              \/ near(phi_days[k], phi_sec_days, gap_width_days))]

estimate_scatter(phi_days, flux, phi_pri_days, phi_sec_days, gap_width_hrs) ==
    IF Len(phi_days) # Len(flux) THEN Raise("AssertionError")
    ELSE
    LET idx == scatter_idx(phi_days, phi_pri_days, phi_sec_days,
                           gap_width_hrs)
    IN  IF ~(\E k \in DOMAIN idx : idx[k]) THEN Raise("AssertionError")
        ELSE Return(np_std(Select(flux, idx)))

-----------------------------------------------------------------------------
(* compute_false_alarm_threshold *)

\* scipy.special.erfcinv(x) by the range its value lies in: defined on
\* [0, 2], decreasing from +inf at 0 through 0 at 1 to -inf at 2; nan
\* outside.
erfcinv_range(x) ==
    IF ~isfinite(x) \/ RLt(x, Zero) \/ RLt(Int2R(2), x) THEN "nan"
    ELSE IF x = Zero THEN "+inf"
    ELSE IF RLt(x, Int2R(1)) THEN "positive"
    ELSE IF x = Int2R(1) THEN "zero"
    ELSE IF RLt(x, Int2R(2)) THEN "negative"
    ELSE "-inf"

\* fa = erfcinv(x) * sqrt(2): the exact term and the range of its value
\* (the factor sqrt(2) > 0 keeps the range)
sqrt2_erfcinv(x) == [sqrt2_erfcinv_of |-> x, range |-> erfcinv_range(x)]

\* period_days and duration_hrs are Python floats: a zero period raises
compute_false_alarm_threshold(period_days, duration_hrs) ==
    LET duration_days == RDiv(duration_hrs, Int2R(24))
    IN  IF period_days.n = 0 THEN Raise("ZeroDivisionError")
        ELSE Return(sqrt2_erfcinv(RDiv(duration_days, period_days)))

-----------------------------------------------------------------------------
(* compute_convolution_for_binned_data *)

all_finite(a) == \A k \in DOMAIN a : isfinite(a[k])

\* np.max of a non-empty array
np_max(a) == a[argmax(a)]
\* the least element of a non-empty array
np_min(a) == a[argmin(a)]

\* a[i0:i1], with Python's 0-based bounds cut at the end of a
Slice(a, i0, i1) ==
    LET hi == IF i1 < Len(a) THEN i1 ELSE Len(a)
    IN  IF hi <= i0 THEN <<>> ELSE [k \in 1..(hi - i0) |-> a[i0 + k]]

\* np.convolve(a, v), mode "full": Len(a) + Len(v) - 1 sums of products
np_convolve(a, v) ==
    [m \in 1..(Len(a) + Len(v) - 1) |->
        SumOver([j \in DOMAIN a |->
                    IF m - j + 1 \in DOMAIN v THEN RMul(a[j], v[m - j + 1])
                    ELSE Zero],
                DOMAIN a)]

\* a window that opens with the doubled sequence
window_at_origin(model) == 0

\* i0 = int(1 * len(model)): the window opens where the second copy of the
\* flux begins
window_start(model) == Len(model)

compute_convolution_for_binned_data(phase, flux, model, offset_frac) ==
    IF ~all_finite(flux) THEN Raise("AssertionError")
    ELSE IF ~all_finite(model) THEN Raise("AssertionError")
    ELSE IF Len(phase) # Len(flux) THEN Raise("AssertionError")
    ELSE IF Len(flux) # Len(model) THEN Raise("AssertionError")
    ELSE IF Len(phase) = 0 THEN Raise("ValueError")     \* np.max of nothing
    ELSE
    LET period == np_max(phase)
        phase2 == phase \o [k \in DOMAIN phase |-> RAdd(period, phase[k])]
        flux2 == flux \o flux
        conv == np_convolve(flux2, [k \in DOMAIN model |-> RNeg(model[k])])
        i0 == window_start(model)
        i1 == i0 + Len(model)
        phi == Slice(phase2, i0, i1)
        cut == Slice(conv, i0, i1)
        bphase == [k \in DOMAIN phi |->
                      fmod(RSub(phi[k], RMul(offset_frac, period)), period)]
    IN  Return([k \in DOMAIN bphase |-> <<bphase[k], cut[k]>>])

-----------------------------------------------------------------------------
(* compute_event_significances *)

\* The loop of the function: per event, the statistic of the entry of conv
\* whose phase is nearest to the event's phase (lowest index on ties).
event_significances(conv, results) ==
    LET at(phi) ==
            conv[argmin([k \in DOMAIN conv |->
                            RAbs(RSub(conv[k][1], phi))])][2]
    IN  [sigma_pri |-> at(results.pri), sigma_sec |-> at(results.sec),
         sigma_ter |-> at(results.ter), sigma_pos |-> at(results.pos)]

\* The function opens with
\*     assert "pri sec ter pos".split() in results.keys()
\* which looks a list up in the keys of a dictionary. The lookup hashes the
\* list, and a list is unhashable: the expression raises TypeError for
\* every results, before the loop.
compute_event_significances(conv, results) == Raise("TypeError")

-----------------------------------------------------------------------------
(* compute_modshift_metrics *)

\* Number of bins per transit duration
overres == 10

Staged(r, st) == [r EXCEPT !.stages = st]

\* x / sigma for the exact square root sigma
DivSqrt(x, sigma) == [num |-> x, over_sqrt |-> sigma.sq]

\* The stages run in the order of the code; the outcome of a call that a
\* stage ends by raising is that exception, with the stages entered so far.
\* Each operator below is one stretch of the function body: it takes the
\* outcome of the stage before it (an exception ends the call), the
\* arguments a of the call and the stages st entered so far.

\* results["false_alarm_threshold"] = ...; return results
metrics_return(results, signif, a, st) ==
    IF signif.err # "none" THEN Staged(signif, st)
    ELSE
    LET fa == compute_false_alarm_threshold(a.period_days, a.duration_hrs)
        s7 == Append(st, "compute_false_alarm_threshold")
    IN  IF fa.err # "none" THEN Staged(fa, s7)
        ELSE Staged(Return(results @@ signif.val @@
                           [false_alarm_threshold |-> fa.val]), s7)

\* assert sigma > 0; conv[:, 1] /= sigma; compute_event_significances
metrics_rescale(conv, results, sigma, a, st) ==
    IF sigma.err # "none" THEN Staged(sigma, st)
    ELSE IF ~SqrtPositive(sigma.val) THEN Staged(Raise("AssertionError"), st)
    ELSE metrics_return(
             results,
             compute_event_significances(
                 [k \in DOMAIN conv |->
                     <<conv[k][1], DivSqrt(conv[k][2], sigma.val)>>],
                 results),
             a, Append(st, "compute_event_significances"))

\* phi_days = compute_phase(...); sigma = estimate_scatter(...)
metrics_scatter(conv, located, a, st) ==
    IF located.err # "none" THEN Staged(located, st)
    ELSE metrics_rescale(
             conv, located.val,
             estimate_scatter(
                 compute_phase(a.time, a.period_days, a.epoch_days, offset),
                 a.flux, located.val.pri, located.val.sec,
                 RMul(Int2R(2), a.duration_hrs)),
             a, Append(st, "estimate_scatter"))

\* results = find_indices_of_key_locations(conv, period_days, duration_hrs)
metrics_locate(conv, a, st) ==
    IF conv.err # "none" THEN Staged(conv, st)
    ELSE metrics_scatter(
             conv.val,
             find_indices_of_key_locations(conv.val, a.period_days,
                                           a.duration_hrs),
             a, Append(st, "find_indices_of_key_locations"))

\* bModel[:,1] /= bModel[:,2]; conv = compute_convolution_for_binned_data(
\* bphase, bflux, model, offset): the convolution is given the model
\* argument of the call, not the binned model
metrics_convolve(data, bModel, a, st) ==
    IF bModel.err # "none" THEN Staged(bModel, st)
    ELSE metrics_locate(
             compute_convolution_for_binned_data(
                 Col(data.val, 1), Col(data.val, 2), a.model, offset),
             a, Append(st, "compute_convolution_for_binned_data"))

\* bphase = data[:, 0]; bflux = data[:, 1]; bModel = fold_and_bin_data(...)
metrics_bin_model(data, numBins, a, st) ==
    IF data.err # "none" THEN Staged(data, st)
    ELSE metrics_convolve(
             data,
             fold_and_bin_data(a.time, a.model, a.period_days, a.epoch_days,
                               offset, numBins),
             a, Append(st, "fold_and_bin_data"))

\* fold_and_bin_data is declared (time, flux, period, epoch, num_bins,
\* offset_frac) and called with (..., offset, numBins): offset is its
\* num_bins and numBins its offset_frac. duration_hrs is a Python float,
\* so a zero duration raises ZeroDivisionError in the division.
compute_modshift_metrics(time, flux, model, period_days, epoch_days, duration_hrs) ==
    IF ~all_finite(time) THEN Raise("AssertionError")
    ELSE IF ~all_finite(flux) THEN Raise("AssertionError")
    ELSE IF Len(time) # Len(flux) THEN Raise("AssertionError")
    ELSE IF duration_hrs.n = 0 THEN Raise("ZeroDivisionError")
    ELSE
    LET numBins == Int2R(Trunc(RDiv(RMul(RMul(Int2R(overres), period_days),
                                         Int2R(24)), duration_hrs)))
    IN  metrics_bin_model(
            fold_and_bin_data(time, flux, period_days, epoch_days, offset,
                              numBins),
            numBins,
            [time |-> time, flux |-> flux, model |-> model,
             period_days |-> period_days, epoch_days |-> epoch_days,
             duration_hrs |-> duration_hrs],
            <<"fold_and_bin_data">>)

-----------------------------------------------------------------------------
(* Inputs *)

\* input times are multiples of a quarter day
Times == {Rat(k, 4) : k \in 0..MaxTime}

SeqsUpTo(S, n) == UNION {[1..k -> S] : k \in 0..n}

-----------------------------------------------------------------------------
(* Specification of a call of compute_phase *)

PhasePeriods == {Rat(1, 2), Int2R(1)}
PhaseEpochs == {Zero, Rat(1, 2), Int2R(2)}

InitPhase ==
    /\ pc = "ready"
    /\ args \in [fn : {"compute_phase"},
                 time : SeqsUpTo(Times, MaxLen) \ {<<>>},
                 period : PhasePeriods, epoch : PhaseEpochs]
    /\ ret = Pending

Call_compute_phase ==
    /\ pc = "ready"
    /\ args.fn = "compute_phase"
    /\ pc' = "done"
    /\ ret' = Return(compute_phase(args.time, args.period, args.epoch, offset))
    /\ UNCHANGED args

NextPhase == Call_compute_phase

SpecPhase == InitPhase /\ [][NextPhase]_vars

\* C3: every phase compute_phase returns for a finite time and a positive
\* period lies in [0, period), also for times before epoch - offset*period.
C3_PhaseInRange ==
    pc = "done" =>
        \A k \in DOMAIN ret.val :
            /\ RLe(Zero, ret.val[k])
            /\ RLt(ret.val[k], args.period)

-----------------------------------------------------------------------------
(* Specification of a call of fold_and_bin_data *)

Fluxes == {Int2R(-1), Zero, Int2R(1)}
BinPeriods == {Int2R(1), Int2R(2)}
BinEpochs == {Zero, Rat(1, 2)}
BinNumBins == {Int2R(2), Int2R(4)}

InitBin ==
    /\ pc = "ready"
    /\ \E k \in 1..MaxLen :
           args \in [fn : {"fold_and_bin_data"},
                     time : [1..k -> Times], flux : [1..k -> Fluxes],
                     period : BinPeriods, epoch : BinEpochs,
                     num_bins : BinNumBins]
    /\ ret = Pending

Call_fold_and_bin_data ==
    /\ pc = "ready"
    /\ args.fn = "fold_and_bin_data"
    /\ pc' = "done"
    /\ ret' = fold_and_bin_data(args.time, args.flux, args.period, args.epoch,
                                args.num_bins, offset)
    /\ UNCHANGED args

NextBin == Call_fold_and_bin_data

SpecBin == InitBin /\ [][NextBin]_vars

\* the samples whose folded phase lies in the half-open bin that starts at
\* the phase lo and is period/num_bins wide
SamplesInBin(lo) ==
    LET phase == compute_phase(args.time, args.period, args.epoch, offset)
        hi == RAdd(lo, RDiv(args.period, args.num_bins))
    IN  {j \in DOMAIN phase : RLe(lo, phase[j]) /\ RLt(phase[j], hi)}

\* C4: in the output of fold_and_bin_data every retained bin holds the mean
\* (sum / count) of exactly the flux samples whose folded phase lies in the
\* bin's half-open interval and the number of those samples, and no bin
\* without samples is in the output.
C4_BinnedMean ==
    pc = "done" =>
        /\ ret.err = "none"
        /\ \A r \in DOMAIN ret.val :
               LET S == SamplesInBin(ret.val[r][1])
               IN  /\ S # {}
                   /\ ret.val[r][3] = Int2R(Cardinality(S))
                   /\ ret.val[r][2] =
                          RDiv(SumOver(args.flux, S), Int2R(Cardinality(S)))

\* C5: fold_and_bin_data counts every sample in exactly one of num_bins
\* equal bins: the counts of the retained bins sum to the number of input
\* samples and the retained phases are strictly increasing multiples of
\* period/num_bins inside [0, period).
C5_BinsPartition ==
    pc = "done" =>
        /\ ret.err = "none"
        /\ SumOver([r \in DOMAIN ret.val |-> ret.val[r][3]], DOMAIN ret.val)
               = Int2R(Len(args.time))
        /\ \A r \in DOMAIN ret.val :
               /\ \E k \in 0..(Trunc(args.num_bins) - 1) :
                      ret.val[r][1] =
                          RMul(Int2R(k), RDiv(args.period, args.num_bins))
               /\ r > 1 => RLt(ret.val[r - 1][1], ret.val[r][1])

-----------------------------------------------------------------------------
(* Specification of a call of find_indices_of_key_locations *)

Stats == {Int2R(k) : k \in -2..1}
LocateDurations == {Int2R(3), Int2R(6)}

InitLocate ==
    /\ pc = "ready"
    /\ \E k \in 1..MaxLen :
         \E ph \in [1..k -> Times], st \in [1..k -> Stats] :
           /\ \A a, b \in 1..k : a # b => ph[a] # ph[b]
           /\ args \in [fn : {"find_indices_of_key_locations"},
                        conv : {[j \in 1..k |-> <<ph[j], st[j]>>]},
                        period_days : {Int2R(1)},
                        duration_hrs : LocateDurations]
    /\ ret = Pending

Call_find_indices_of_key_locations ==
    /\ pc = "ready"
    /\ args.fn = "find_indices_of_key_locations"
    /\ pc' = "done"
    /\ ret' = find_indices_of_key_locations(args.conv, args.period_days,
                                            args.duration_hrs)
    /\ UNCHANGED args

NextLocate == Call_find_indices_of_key_locations

SpecLocate == InitLocate /\ [][NextLocate]_vars

\* x is not in the open interval (c - h, c + h)
Outside(x, c, h) == ~(RLt(RSub(c, h), x) /\ RLt(x, RAdd(c, h)))

\* C6: the four phases find_indices_of_key_locations returns are separated
\* by the masking windows, whatever the signs of the statistics: sec is
\* outside (pri - 2w, pri + 2w), ter is outside the 2w windows of pri and
\* of sec, pos is outside the 3w windows of pri and of sec, w =
\* duration_hrs/24.
C6_EventsSeparated ==
    pc = "done" =>
        /\ ret.err = "none"
        /\ LET w == RDiv(args.duration_hrs, Int2R(24))
               w2 == RMul(Int2R(2), w)
               w3 == RMul(Int2R(3), w)
               r == ret.val
           IN  /\ Outside(r.sec, r.pri, w2)
               /\ Outside(r.ter, r.pri, w2)
               /\ Outside(r.ter, r.sec, w2)
               /\ Outside(r.pos, r.pri, w3)
               /\ Outside(r.pos, r.sec, w3)

-----------------------------------------------------------------------------
(* Specification of a call of estimate_scatter *)

ScatterFluxes == {Zero, Int2R(10)}
ScatterPri == {Zero, Rat(1, 2)}
ScatterSec == {Rat(1, 2), Int2R(1)}
GapHrs == {Zero, Int2R(6), Int2R(12), Int2R(48)}

InitScatter ==
    /\ pc = "ready"
    /\ \E k \in 1..MaxLen :
           args \in [fn : {"estimate_scatter"},
                     phi_days : [1..k -> Times], flux : [1..k -> ScatterFluxes],
                     phi_pri_days : ScatterPri, phi_sec_days : ScatterSec,
                     gap_width_hrs : GapHrs]
    /\ ret = Pending

Call_estimate_scatter ==
    /\ pc = "ready"
    /\ args.fn = "estimate_scatter"
    /\ pc' = "done"
    /\ ret' = estimate_scatter(args.phi_days, args.flux, args.phi_pri_days,
                               args.phi_sec_days, args.gap_width_hrs)
    /\ UNCHANGED args

NextScatter == Call_estimate_scatter

SpecScatter == InitScatter /\ [][NextScatter]_vars

\* the samples that are in neither exclusion window of half-width g days
Remaining(g) ==
    {k \in DOMAIN args.phi_days :
        /\ Outside(args.phi_days[k], args.phi_pri_days, g)
        /\ Outside(args.phi_days[k], args.phi_sec_days, g)}

\* no sample remains, or the remaining flux has no variance
Degenerate ==
    LET R == Remaining(RDiv(args.gap_width_hrs, Int2R(24)))
    IN  \A a, b \in R : args.flux[a] = args.flux[b]

\* C7: estimate_scatter raises on a degenerate input (no sample outside the
\* windows, or zero variance of the remaining flux) and never returns a
\* scatter that is not positive.
C7_DegenerateScatterRaises ==
    pc = "done" =>
        /\ Degenerate => ret.err # "none"
        /\ ret.err = "none" => SqrtPositive(ret.val)

\* the samples estimate_scatter includes with the half-width g hours
Included(g) ==
    {k \in DOMAIN args.phi_days :
        scatter_idx(args.phi_days, args.phi_pri_days, args.phi_sec_days, g)[k]}

\* C10: for fixed phi_days, flux, pri and sec, a larger exclusion
\* half-width never includes a sample that the smaller one excludes; with
\* half-width 0 no sample is excluded and the result is the standard
\* deviation of the whole flux.
C10_ScatterMonotone ==
    pc = "done" =>
        /\ \A g2 \in GapHrs :
               RLt(args.gap_width_hrs, g2) =>
                   Included(g2) \subseteq Included(args.gap_width_hrs)
        /\ args.gap_width_hrs = Zero =>
               /\ Included(Zero) = DOMAIN args.phi_days
               /\ ret = Return(np_std(args.flux))

\* a call with half-width 0, a sample exactly at pri, and a larger
\* half-width that excludes some but not all samples
C10_Witness ==
    /\ pc = "done"
    /\ ret.err = "none"
    /\ args.gap_width_hrs = Zero
    /\ \E k \in DOMAIN args.phi_days : args.phi_days[k] = args.phi_pri_days
    /\ \E g2 \in GapHrs :
           /\ Included(g2) # {}
           /\ Included(g2) # Included(Zero)
    /\ SqrtPositive(ret.val)

-----------------------------------------------------------------------------
(* Specification of a call of compute_false_alarm_threshold *)

FAPeriods == {Rat(k, 2) : k \in -2..(MaxTime + 2)}
FADurations == {Int2R(h) : h \in {-12, 0, 6, 12, 24, 48, 96}}

InitFA ==
    /\ pc = "ready"
    /\ args \in [fn : {"compute_false_alarm_threshold"},
                 period_days : FAPeriods, duration_hrs : FADurations]
    /\ ret = Pending

Call_compute_false_alarm_threshold ==
    /\ pc = "ready"
    /\ args.fn = "compute_false_alarm_threshold"
    /\ pc' = "done"
    /\ ret' = compute_false_alarm_threshold(args.period_days,
                                            args.duration_hrs)
    /\ UNCHANGED args

NextFA == Call_compute_false_alarm_threshold

SpecFA == InitFA /\ [][NextFA]_vars

\* C9: compute_false_alarm_threshold returns a threshold only when
\* 0 < duration_hrs/24 < period_days and reports an error for every other
\* pair of arguments.
C9_ThresholdValidated ==
    pc = "done" =>
        LET duration_days == RDiv(args.duration_hrs, Int2R(24))
        IN  ret.err = "none" <=>
                (RLt(Zero, duration_days) /\ RLt(duration_days, args.period_days))

-----------------------------------------------------------------------------
(* Specification of a call of compute_modshift_metrics *)

\* a regular cadence of k samples, one every quarter of a day
Cadence(k) == [j \in 1..k |-> Rat(j - 1, 4)]
\* the arrays a with one element replaced by a value that is not finite
Spoiled(a) ==
    {[a EXCEPT ![j] = v] : j \in DOMAIN a, v \in {NaN, PosInf}}

MetricsFluxes == {Zero, Int2R(-1), NaN}
MetricsPeriods == {Int2R(-1), Zero, Int2R(1)}
MetricsDurations == {Int2R(-6), Zero, Int2R(6), Int2R(24)}

\* small inputs, valid and invalid ones
SmallArgs ==
    UNION {[fn : {"compute_modshift_metrics"},
            time : {Cadence(k)} \cup Spoiled(Cadence(k)),
            flux : SeqsUpTo(MetricsFluxes, MaxLen) \ {<<>>},
            model : [1..k -> MetricsFluxes] \cup [1..(k - 1) -> MetricsFluxes],
            period_days : MetricsPeriods,
            epoch_days : {Rat(1, 2)},
            duration_hrs : MetricsDurations] : k \in 1..MaxLen}

\* inputs that satisfy the inbound contract: four samples half a day apart
\* with four different fluxes, a period of 2 days and a 3 hour transit
ContractArgs ==
    [fn : {"compute_modshift_metrics"},
     time : {<<Zero, Rat(1, 2), Int2R(1), Rat(3, 2)>>},
     flux : {<<Zero, Int2R(-2), Int2R(1), Int2R(-1)>>,
             <<Int2R(1), Int2R(-3), Zero, Int2R(2)>>},
     model : {<<Zero, Int2R(-1), Zero, Zero>>,
              <<Zero, Int2R(-2), Zero, Zero>>},
     period_days : {Int2R(2)},
     epoch_days : {Rat(1, 2)},
     duration_hrs : {Int2R(3)}]

InitMetrics ==
    /\ pc = "ready"
    /\ args \in SmallArgs \cup ContractArgs
    /\ ret = Pending

Call_compute_modshift_metrics ==
    /\ pc = "ready"
    /\ args.fn = "compute_modshift_metrics"
    /\ pc' = "done"
    /\ ret' = compute_modshift_metrics(args.time, args.flux, args.model,
                                       args.period_days, args.epoch_days,
                                       args.duration_hrs)
    /\ UNCHANGED args

NextMetrics == Call_compute_modshift_metrics

SpecMetrics == InitMetrics /\ [][NextMetrics]_vars

\* the stages of a complete run, in order
AllStages ==
    <<"fold_and_bin_data", "fold_and_bin_data",
      "compute_convolution_for_binned_data", "find_indices_of_key_locations",
      "estimate_scatter", "compute_event_significances",
      "compute_false_alarm_threshold">>

ResultKeys ==
    {"pri", "sec", "ter", "pos", "sigma_pri", "sigma_sec", "sigma_ter",
     "sigma_pos", "false_alarm_threshold"}

\* Whatever pri and sec are, the samples outside the two exclusion windows
\* (open, 2 * (2 * duration_hrs / 24) days wide) hold two different fluxes:
\* the samples a window excludes lie in [p, p + width) for the phase p of
\* the leftmost of them.
ScatterSurelyPositive ==
    LET phase == compute_phase(args.time, args.period_days, args.epoch_days,
                               offset)
        width == RDiv(RMul(Int2R(4), args.duration_hrs), Int2R(24))
        Cluster(i) == {k \in DOMAIN phase :
                          /\ RLe(phase[i], phase[k])
                          /\ RLt(phase[k], RAdd(phase[i], width))}
    IN  \A i1, i2 \in DOMAIN phase :
            \E a, b \in DOMAIN phase \ (Cluster(i1) \cup Cluster(i2)) :
                args.flux[a] # args.flux[b]

\* the inbound contract of compute_modshift_metrics
InboundContract ==
    /\ all_finite(args.time) /\ all_finite(args.flux) /\ all_finite(args.model)
    /\ Len(args.time) = Len(args.flux)
    /\ Len(args.time) = Len(args.model)
    /\ RLt(Zero, args.period_days)
    /\ RLt(Zero, args.epoch_days)
    /\ RLt(Zero, args.duration_hrs)
    /\ RLt(RDiv(args.duration_hrs, Int2R(24)), args.period_days)
    /\ ScatterSurelyPositive

\* C1: on every input that satisfies the inbound contract,
\* compute_modshift_metrics runs the binner on flux and on model, the
\* convolution, the event locator, the scatter estimator, the significance
\* scorer and the false-alarm threshold in that order and returns a mapping
\* with the nine result keys; it never ends in an error.
C1_MetricsReturnsResult ==
    pc = "done" /\ InboundContract =>
        /\ ret.err = "none"
        /\ ret.stages = AllStages
        /\ DOMAIN ret.val = ResultKeys

\* flux is zero except for one box-car dip centred on the epoch, and the
\* model equals the flux
IsBoxcar ==
    /\ all_finite(args.time) /\ all_finite(args.flux)
    /\ Len(args.time) = Len(args.flux)
    /\ args.model = args.flux
    /\ RLt(Zero, args.period_days)
    /\ RLt(Zero, args.duration_hrs)
    /\ RLt(RDiv(args.duration_hrs, Int2R(24)), args.period_days)
    /\ LET half == RDiv(args.duration_hrs, Int2R(48))
           InTransit(k) ==
               RLe(RAbs(RSub(args.time[k], args.epoch_days)), half)
       IN  /\ \E k \in DOMAIN args.time : InTransit(k)
           /\ \E depth \in {Int2R(-1)} :
                  \A k \in DOMAIN args.time :
                      args.flux[k] = IF InTransit(k) THEN depth ELSE Zero

\* C2: for a series that is zero except for a box-car dip centred on the
\* epoch and a model equal to it, the phase returned as pri is within one
\* bin width (period_days / num_bins) of the injected phase,
\* 0.25 * period_days.
C2_PrimaryAtQuarterPhase ==
    pc = "done" /\ IsBoxcar =>
        /\ ret.err = "none"
        /\ LET num_bins == Int2R(Trunc(RDiv(
                   RMul(RMul(Int2R(overres), args.period_days), Int2R(24)),
                   args.duration_hrs)))
           IN  RLe(RAbs(RSub(ret.val.pri, RMul(offset, args.period_days))),
                   RDiv(args.period_days, num_bins))

\* an input the boundary has to refuse
InvalidInput ==
    \/ ~all_finite(args.time) \/ ~all_finite(args.flux)
    \/ ~all_finite(args.model)
    \/ Len(args.time) # Len(args.flux)
    \/ Len(args.time) # Len(args.model)
    \/ RLe(args.period_days, Zero)
    \/ RLe(args.duration_hrs, Zero)
    \/ RLe(args.period_days, RDiv(args.duration_hrs, Int2R(24)))

\* C8: compute_modshift_metrics refuses an invalid input (a value that is
\* not finite in time, flux or model, arrays of different lengths, a period
\* or duration that is not positive, duration_hrs/24 >= period_days) with
\* an error at its boundary, before any stage has run.
C8_ValidatedBeforeStages ==
    pc = "done" /\ InvalidInput =>
        /\ ret.err # "none"
        /\ ret.stages = <<>>

-----------------------------------------------------------------------------
(* Specification of a call of compute_convolution_for_binned_data *)

ModelValues == {Int2R(-2), Int2R(-1), Zero}

\* the orbital period whose bins, a quarter of a day wide, have the left
\* edges Times
ConvPeriod == Rat(MaxTime + 1, 4)

\* The binned phases are left edges of bins a quarter of a day wide, in
\* ascending order; flux and model have their length and are finite.
InitConv ==
    /\ pc = "ready"
    /\ \E k \in 1..MaxLen :
         \E ph \in [1..k -> Times] :
           /\ \A a \in 1..(k - 1) : RLt(ph[a], ph[a + 1])
           /\ args \in [fn : {"compute_convolution_for_binned_data"},
                        phase : {ph},
                        flux : [1..k -> Fluxes],
                        model : [1..k -> ModelValues],
                        offset_frac : {offset}]
    /\ ret = Pending

Call_compute_convolution_for_binned_data ==
    /\ pc = "ready"
    /\ args.fn = "compute_convolution_for_binned_data"
    /\ pc' = "done"
    /\ ret' = compute_convolution_for_binned_data(args.phase, args.flux,
                                                  args.model,
                                                  args.offset_frac)
    /\ UNCHANGED args

NextConv == Call_compute_convolution_for_binned_data

SpecConv == InitConv /\ [][NextConv]_vars

\* the circular convolution of flux with the negated model at the 0-based
\* output index i: -sum over j in 0..n-1 of flux[(i - j) mod n] * model[j]
Circular(flux, model, i) ==
    LET n == Len(flux)
    IN  RNeg(SumOver([j \in 1..n |->
                         RMul(flux[((i - (j - 1)) % n) + 1], model[j])],
                     1..n))

\* C12: for a binned flux and a model of one length n >= 1, all finite,
\* compute_convolution_for_binned_data returns exactly n statistics, and
\* the statistic at the output index i is the circular convolution of the
\* flux with the negated model: every term of every sum wraps around the
\* period, none is missing as in a partial overlap.
C12_CircularConvolution ==
    pc = "done" =>
        /\ ret.err = "none"
        /\ Len(ret.val) = Len(args.flux)
        /\ \A i \in 0..(Len(args.flux) - 1) :
               ret.val[i + 1][2] = Circular(args.flux, args.model, i)

\* a returned statistic that is not zero and has a wrapped term that is
\* not zero: a product of a model value with a flux that lies after the
\* output index
C12_Witness ==
    /\ pc = "done"
    /\ ret.err = "none"
    /\ Len(ret.val) = MaxLen
    /\ \E i \in 0..(Len(args.flux) - 1), j \in 1..Len(args.flux) :
           /\ i - (j - 1) < 0
           /\ RMul(args.flux[((i - (j - 1)) % Len(args.flux)) + 1],
                   args.model[j]) # Zero
           /\ ret.val[i + 1][2] # Zero

\* x mod y for y > 0: the remainder in [0, y)
FloorMod(x, y) ==
    LET q == RDiv(x, y)
    IN  RSub(x, RMul(Int2R(q.n \div q.d), y))

\* C13: the phase column compute_convolution_for_binned_data returns is
\* (phase - offset * period) mod period for the orbital period of the
\* folding: every returned phase lies in [0, period) and no two entries of
\* the returned series carry the same phase.
C13_PhasesRotated ==
    pc = "done" =>
        /\ ret.err = "none"
        /\ \A k \in DOMAIN ret.val :
               /\ ret.val[k][1] =
                      FloorMod(RSub(args.phase[k],
                                    RMul(args.offset_frac, ConvPeriod)),
                               ConvPeriod)
               /\ RLe(Zero, ret.val[k][1])
               /\ RLt(ret.val[k][1], ConvPeriod)
        /\ \A a, b \in DOMAIN ret.val :
               a # b => ret.val[a][1] # ret.val[b][1]

-----------------------------------------------------------------------------
(* Specification of the lines of compute_modshift_metrics that locate the  *)
(* events in conv, rescale conv and score the events                       *)

\* values of sigma that pass assert sigma > 0
Sigmas == {Sqrt(Int2R(1)), Sqrt(Int2R(4))}

\* conv[:, 1] /= sigma
rescale(conv, sigma) ==
    [k \in DOMAIN conv |-> <<conv[k][1], DivSqrt(conv[k][2], sigma)>>]

InitTail ==
    /\ pc = "ready"
    /\ \E k \in 1..MaxLen :
         \E ph \in [1..k -> Times], st \in [1..k -> Stats] :
           /\ \A a, b \in 1..k : a # b => ph[a] # ph[b]
           /\ args \in [fn : {"compute_modshift_metrics[99:108]"},
                        conv : {[j \in 1..k |-> <<ph[j], st[j]>>]},
                        period_days : {Int2R(1)},
                        duration_hrs : {Int2R(3)},
                        sigma : Sigmas]
    /\ ret = Pending

\* results = find_indices_of_key_locations(conv, period_days, duration_hrs)
Locate_events ==
    /\ pc = "ready"
    /\ args.fn = "compute_modshift_metrics[99:108]"
    /\ ret' = find_indices_of_key_locations(args.conv, args.period_days,
                                            args.duration_hrs)
    /\ pc' = IF ret'.err = "none" THEN "located" ELSE "done"
    /\ args' = [args EXCEPT !.conv =
                    conv_after_find_indices(args.conv, args.period_days,
                                            args.duration_hrs)]

\* conv[:, 1] /= sigma
\* results.update(compute_event_significances(conv, results))
Rescale_and_score ==
    /\ pc = "located"
    /\ args.fn = "compute_modshift_metrics[99:108]"
    /\ pc' = "done"
    /\ args' = [args EXCEPT !.conv = rescale(args.conv, args.sigma)]
    /\ LET signif == compute_event_significances(args'.conv, ret.val)
       IN  ret' = IF signif.err # "none" THEN signif
                  ELSE Return(ret.val @@ signif.val)

NextTail == Locate_events \/ Rescale_and_score

SpecTail == InitTail /\ [][NextTail]_vars

\* the statistic of the entry of conv at the phase phi
StatAt(conv, phi) ==
    conv[CHOOSE k \in DOMAIN conv : conv[k][1] = phi][2]

\* C15: find_indices_of_key_locations leaves the conv it is given as it
\* was, every entry equal to its value before the call; and the rescale
\* and compute_event_significances that follow the call read the unmasked
\* statistics at pri, sec, ter and pos: each sigma is the statistic of conv
\* at that phase divided by the scatter, and sigma_pri is the least of all
\* statistics divided by the scatter.
C15_ConvUnchangedAndRead ==
    [][/\ pc = "ready" /\ pc' # "ready" => args'.conv = args.conv
       /\ pc = "located" /\ pc' = "done" =>
              /\ ret'.err = "none"
              /\ ret'.val.sigma_pri =
                     DivSqrt(np_min(Col(args.conv, 2)), args.sigma)
              /\ ret'.val.sigma_pri =
                     DivSqrt(StatAt(args.conv, ret.val.pri), args.sigma)
              /\ ret'.val.sigma_sec =
                     DivSqrt(StatAt(args.conv, ret.val.sec), args.sigma)
              /\ ret'.val.sigma_ter =
                     DivSqrt(StatAt(args.conv, ret.val.ter), args.sigma)
              /\ ret'.val.sigma_pos =
                     DivSqrt(StatAt(args.conv, ret.val.pos), args.sigma)
      ]_vars

\* the part of C15 about the call itself: no entry of conv changes
ConvUnchangedByLocate ==
    [][pc = "ready" /\ pc' # "ready" => args'.conv = args.conv]_vars

-----------------------------------------------------------------------------
(* Specification of a call of compute_event_significances *)

EventPhases == {Rat(1, 8), Rat(1, 2)}

\* conv in units of significance, with pairwise different phases, and a
\* results mapping that holds the four event phases
InitSignif ==
    /\ pc = "ready"
    /\ \E k \in 1..MaxLen :
         \E ph \in [1..k -> Times], st \in [1..k -> Stats] :
           /\ \A a, b \in 1..k : a # b => ph[a] # ph[b]
           /\ args \in [fn : {"compute_event_significances"},
                        conv : {[j \in 1..k |-> <<ph[j], st[j]>>]},
                        results : [pri : EventPhases, sec : EventPhases,
                                   ter : EventPhases, pos : EventPhases]]
    /\ ret = Pending

Call_compute_event_significances ==
    /\ pc = "ready"
    /\ args.fn = "compute_event_significances"
    /\ pc' = "done"
    /\ ret' = compute_event_significances(args.conv, args.results)
    /\ UNCHANGED args

NextSignif == Call_compute_event_significances

SpecSignif == InitSignif /\ [][NextSignif]_vars

\* i is the lowest index of conv whose phase is nearest to phi
Nearest(conv, phi, i) ==
    /\ \A j \in DOMAIN conv :
           RLe(RAbs(RSub(conv[i][1], phi)), RAbs(RSub(conv[j][1], phi)))
    /\ \A j \in 1..(i - 1) :
           RLt(RAbs(RSub(conv[i][1], phi)), RAbs(RSub(conv[j][1], phi)))

\* C14: for every results mapping that holds pri, sec, ter and pos,
\* compute_event_significances returns under sigma_pri, sigma_sec,
\* sigma_ter and sigma_pos the statistic of the entry of conv whose phase
\* has the least absolute difference to the event's phase, the lowest
\* index on ties.
C14_SignificanceAtNearestPhase ==
    pc = "done" =>
        /\ ret.err = "none"
        /\ DOMAIN ret.val =
               {"sigma_pri", "sigma_sec", "sigma_ter", "sigma_pos"}
        /\ \A i \in DOMAIN args.conv :
               /\ Nearest(args.conv, args.results.pri, i)
                      => ret.val.sigma_pri = args.conv[i][2]
               /\ Nearest(args.conv, args.results.sec, i)
                      => ret.val.sigma_sec = args.conv[i][2]
               /\ Nearest(args.conv, args.results.ter, i)
                      => ret.val.sigma_ter = args.conv[i][2]
               /\ Nearest(args.conv, args.results.pos, i)
                      => ret.val.sigma_pos = args.conv[i][2]

-----------------------------------------------------------------------------
(* vetters.ModShift.run *)

\* An attribute that holds None, and one that has not been assigned
None == [none |-> TRUE]
Unset == [unset |-> TRUE]

\* ModShift.__init__: metrics is None and lc_name is kept; run assigns the
\* other attributes
ModShift_init(lc_name) ==
    [metrics |-> None, lc_name |-> lc_name, time |-> Unset, flux |-> Unset,
     period_days |-> Unset, epoch_days |-> Unset, duration_hrs |-> Unset,
     box |-> Unset, modshift |-> Unset]

\* def compute_modshift_metrics(time, flux, model, period_days, epoch_days,
\* duration_hrs): the parameters, none with a default
metrics_parameters ==
    <<"time", "flux", "model", "period_days", "epoch_days", "duration_hrs">>

\* The call in run: the positional arguments and the keywords it passes
run_positional ==
    <<"self.time", "self.flux", "self.box", "self.period_days",
      "self.epoch_days", "self.duration_hrs">>
run_keywords == {"show_plot"}
\* metrics, conv = ...: the targets of the unpacking
run_targets == <<"metrics", "conv">>

\* Python binds a call before it runs the body: every positional argument
\* and every keyword needs a parameter of its own, and every parameter
\* (none has a default) an argument; otherwise the call raises TypeError.
call_binds(parameters, positional, keywords) ==
    /\ Len(positional) <= Len(parameters)
    /\ \A kw \in keywords :
           \E i \in (Len(positional) + 1)..Len(parameters) :
               parameters[i] = kw
    /\ \A i \in (Len(positional) + 1)..Len(parameters) :
           parameters[i] \in keywords

\* The keys of the dictionary compute_modshift_metrics builds, in the order
\* of insertion; iterating the dictionary yields its keys in this order.
result_key_order ==
    <<"pri", "sec", "ter", "pos", "sigma_pri", "sigma_sec", "sigma_ter",
      "sigma_pos", "false_alarm_threshold">>

dict_iter(val) == SelectSeq(result_key_order, LAMBDA k : k \in DOMAIN val)

\* a, b = val: as many items as targets, or ValueError
unpack(val, targets) ==
    IF Len(dict_iter(val)) # Len(targets) THEN Raise("ValueError")
    ELSE Return(dict_iter(val))

\* metrics, conv = r; self.modshift = metrics; return self.modshift, for
\* the outcome r of the call of compute_modshift_metrics: an exception of
\* the call or of the unpacking ends run
run_assign(self, r, items) ==
    IF r.err # "none" THEN [self |-> self, out |-> Staged(r, <<>>)]
    ELSE IF items.err # "none" THEN [self |-> self, out |-> items]
    ELSE [self |-> [self EXCEPT !.modshift = items.val[1]],
          out |-> Return(items.val[1])]

run_unpack(self, r) ==
    run_assign(self, r,
               IF r.err # "none" THEN r ELSE unpack(r.val, run_targets))

\* run after the light curve and the tce have been unpacked into time,
\* flux, period_days, epoch_days, duration_hrs and the box model: the value
\* the call ends with (out) and the vetter object it leaves (self)
ModShift_run(self, time, flux, box, period_days, epoch_days, duration_hrs) ==
    IF ~call_binds(metrics_parameters, run_positional, run_keywords)
    THEN [self |-> [self EXCEPT !.time = time, !.flux = flux,
                                !.period_days = period_days,
                                !.epoch_days = epoch_days,
                                !.duration_hrs = duration_hrs, !.box = box],
          out |-> Raise("TypeError")]
    ELSE run_unpack([self EXCEPT !.time = time, !.flux = flux,
                                 !.period_days = period_days,
                                 !.epoch_days = epoch_days,
                                 !.duration_hrs = duration_hrs, !.box = box],
                    compute_modshift_metrics(time, flux, box, period_days,
                                             epoch_days, duration_hrs))

-----------------------------------------------------------------------------
(* Specification of a call of ModShift.run *)

\* the unpacked inputs: finite arrays of one length, a positive period and
\* a positive duration shorter than the period
RunArgs ==
    {[fn |-> "ModShift.run", self |-> ModShift_init("flux"),
      time |-> a.time, flux |-> a.flux, model |-> a.model,
      period_days |-> a.period_days, epoch_days |-> a.epoch_days,
      duration_hrs |-> a.duration_hrs] :
        a \in {b \in SmallArgs \cup ContractArgs :
                  /\ all_finite(b.time) /\ all_finite(b.flux)
                  /\ all_finite(b.model)
                  /\ Len(b.time) = Len(b.flux)
                  /\ Len(b.time) = Len(b.model)
                  /\ RLt(Zero, b.period_days)
                  /\ RLt(Zero, b.duration_hrs)
                  /\ RLt(RDiv(b.duration_hrs, Int2R(24)), b.period_days)}}

InitRun ==
    /\ pc = "ready"
    /\ args \in RunArgs
    /\ ret = Pending

Call_ModShift_run ==
    /\ pc = "ready"
    /\ args.fn = "ModShift.run"
    /\ pc' = "done"
    /\ LET r == ModShift_run(args.self, args.time, args.flux, args.model,
                             args.period_days, args.epoch_days,
                             args.duration_hrs)
       IN  /\ ret' = r.out
           /\ args' = [args EXCEPT !.self = r.self]

NextRun == Call_ModShift_run

SpecRun == InitRun /\ [][NextRun]_vars

\* C11: ModShift.run calls compute_modshift_metrics with arguments the
\* entry point accepts and takes the return value in the shape the entry
\* point produces, so the call ends without an error; it returns the
\* modshift result dictionary, which holds pri, sec, ter, pos and
\* false_alarm_threshold, and the vetter object holds that outcome.
C11_RunReturnsResult ==
    pc = "done" =>
        /\ ret.err = "none"
        /\ {"pri", "sec", "ter", "pos", "false_alarm_threshold"}
               \subseteq DOMAIN ret.val
        /\ \/ args.self.modshift = ret.val
           \/ args.self.metrics = ret.val

-----------------------------------------------------------------------------
(* A call of any of the functions *)

Init ==
    \/ InitPhase
    \/ InitBin
    \/ InitLocate
    \/ InitScatter
    \/ InitFA
    \/ InitMetrics
    \/ InitRun
    \/ InitConv
    \/ InitSignif
    \/ InitTail

Next ==
    \/ Call_compute_phase
    \/ Call_fold_and_bin_data
    \/ Call_find_indices_of_key_locations
    \/ Call_estimate_scatter
    \/ Call_compute_false_alarm_threshold
    \/ Call_compute_modshift_metrics
    \/ Call_ModShift_run
    \/ Call_compute_convolution_for_binned_data
    \/ Call_compute_event_significances
    \/ Locate_events
    \/ Rescale_and_score

Spec == Init /\ [][Next]_vars

====
